---- MODULE Spec2Model ----
(***************************************************************************)
(* Model of task_cli.py: the Task record, the TaskManager store (load,     *)
(* save, add, update, delete, mark) and the TaskCLI command dispatch.      *)
(*                                                                         *)
(* Timestamps: datetime.now().isoformat() is a strictly monotone encoding  *)
(* of the clock reading, so a timestamp is modelled by the clock reading   *)
(* itself (a positive integer); None is the falsy value the constructor    *)
(* tests with `or`.  The file holds the JSON value json.dump writes: an    *)
(* array of objects with the keys of Task.to_dict.                         *)
(***************************************************************************)
EXTENDS Integers, Sequences, FiniteSets

VARIABLES
  file,     \* tasks.json (TASKS_FILE, line 52): whether it exists and the array it holds
  tasks,    \* TaskManager.tasks (line 55) of each invocation
  pc,       \* where each invocation is in main (lines 201-209): exited, or loaded
            \* (TaskCLI constructed, command not yet handled)
  out,      \* the message the invocation's command printed (lines 82-114, 198)
  clock,    \* the value datetime.now() last returned (lines 25, 26, 89, 110)
  deleted   \* history: the ids delete_task has removed (line 99), recorded by
            \* CmdDeleteLogged only

vars == <<file, tasks, pc, out, clock, deleted>>

\* ---- bounds of the model
MaxTasks == 2
AddDeleteTasks == 3
MaxClock == 2
RTLen == 2
RaceTasks == 1

\* ---- values
Procs == {1, 2}
None == 0
NoFile == [exists |-> FALSE, data |-> <<>>]
Descriptions == {"", "a"}
Statuses == {"todo", "in-progress", "done"}
StatusInputs == Statuses \cup {"bogus"}
IdInputs == 0 .. MaxTasks
AddDeleteIds == 0 .. AddDeleteTasks
RTIds == {1, 2}
RTTimes == {1, 2}

\* datetime.now(): the clock may have advanced since the last reading
Now(c) == {c} \cup (IF c < MaxClock THEN {c + 1} ELSE {})

\* ---- class Task
TaskInit(task_id, description, status, created_at, updated_at, now1, now2) ==
  [id |-> task_id,
   description |-> description,
   status |-> status,
   created_at |-> IF created_at # None THEN created_at ELSE now1,
   updated_at |-> IF updated_at # None THEN updated_at ELSE now2]

ToDict(t) ==
  [id |-> t.id,
   description |-> t.description,
   status |-> t.status,
   createdAt |-> t.created_at,
   updatedAt |-> t.updated_at]

\* mutant: from_dict reading createdAt from the updatedAt key
FromDictMut(data, now) ==
  TaskInit(data.id, data.description, data.status, data.updatedAt, data.updatedAt, now, now)

FromDict(data, now) ==
  TaskInit(data.id, data.description, data.status, data.createdAt, data.updatedAt, now, now)

\* ---- class TaskManager: pure parts
LoadTasks(f, now) == [i \in 1 .. Len(f.data) |-> FromDict(f.data[i], now)]

SaveTasks(ts) == [exists |-> TRUE, data |-> [i \in 1 .. Len(ts) |-> ToDict(ts[i])]]

EnsureTasksFile(f) == IF ~f.exists THEN [exists |-> TRUE, data |-> <<>>] ELSE f

\* mutant: the search falling back to the last task instead of None
FindTaskByIdMut(ts, task_id) ==
  IF \E i \in 1 .. Len(ts) : ts[i].id = task_id
  THEN CHOOSE i \in 1 .. Len(ts) :
         ts[i].id = task_id /\ \A j \in 1 .. (i - 1) : ts[j].id # task_id
  ELSE Len(ts)

\* index of the first task carrying task_id, 0 for None
FindTaskById(ts, task_id) ==
  IF \E i \in 1 .. Len(ts) : ts[i].id = task_id
  THEN CHOOSE i \in 1 .. Len(ts) :
         ts[i].id = task_id /\ \A j \in 1 .. (i - 1) : ts[j].id # task_id
  ELSE 0

\* list.remove of the object at index i
Remove(ts, i) == [j \in 1 .. (Len(ts) - 1) |-> IF j < i THEN ts[j] ELSE ts[j + 1]]

\* each operation yields the new collection, whether save_tasks ran, and the message
AddTask(ts, description, now1, now2) ==
  [tasks |-> Append(ts, TaskInit(Len(ts) + 1, description, "todo", None, None, now1, now2)),
   save |-> TRUE,
   out |-> "added"]

\* mutant: update_task stamping created_at instead of updated_at
UpdateTaskMut(ts, task_id, new_description, now) ==
  LET i == FindTaskById(ts, task_id) IN
  IF i # 0
  THEN [tasks |-> [ts EXCEPT ![i].description = new_description, ![i].created_at = now],
        save |-> TRUE,
        out |-> "updated"]
  ELSE [tasks |-> ts, save |-> FALSE, out |-> "not found"]

UpdateTask(ts, task_id, new_description, now) ==
  LET i == FindTaskById(ts, task_id) IN
  IF i # 0
  THEN [tasks |-> [ts EXCEPT ![i].description = new_description, ![i].updated_at = now],
        save |-> TRUE,
        out |-> "updated"]
  ELSE [tasks |-> ts, save |-> FALSE, out |-> "not found"]

\* mutant: delete_task dropping every task that carries the id
DeleteTaskMut(ts, task_id) ==
  LET Keep(t) == t.id # task_id IN
  IF FindTaskById(ts, task_id) # 0
  THEN [tasks |-> SelectSeq(ts, Keep), save |-> TRUE, out |-> "deleted"]
  ELSE [tasks |-> ts, save |-> FALSE, out |-> "not found"]

DeleteTask(ts, task_id) ==
  LET i == FindTaskById(ts, task_id) IN
  IF i # 0
  THEN [tasks |-> Remove(ts, i), save |-> TRUE, out |-> "deleted"]
  ELSE [tasks |-> ts, save |-> FALSE, out |-> "not found"]

MarkTask(ts, task_id, status, now) ==
  LET i == FindTaskById(ts, task_id) IN
  IF i # 0
  THEN [tasks |-> [ts EXCEPT ![i].status = status, ![i].updated_at = now],
        save |-> TRUE,
        out |-> "marked"]
  ELSE [tasks |-> ts, save |-> FALSE, out |-> "not found"]

Ids(ts) == [i \in 1 .. Len(ts) |-> ts[i].id]

\* ---- state
Init ==
  /\ file = NoFile
  /\ tasks = [p \in Procs |-> <<>>]
  /\ pc = [p \in Procs |-> "exited"]
  /\ out = [p \in Procs |-> ""]
  /\ clock = 1
  /\ deleted = {}

\* the effect of one manager call by p: the collection, the file when
\* save_tasks ran, the message printed, the clock as last read
Apply(p, r, now) ==
  /\ tasks' = [tasks EXCEPT ![p] = r.tasks]
  /\ file' = IF r.save THEN SaveTasks(r.tasks) ELSE file
  /\ out' = [out EXCEPT ![p] = r.out]
  /\ clock' = now

\* ---- TaskManager methods as steps of the object owned by p
\* mutant: add_task reading the file again before it appends
AddTaskCallMut(p, description) ==
  /\ \E now1 \in Now(clock) : \E now2 \in Now(now1) :
       Apply(p, AddTask(LoadTasks(file, clock), description, now1, now2), now2)
  /\ UNCHANGED deleted

AddTaskCall(p, description) ==
  /\ \E now1 \in Now(clock) : \E now2 \in Now(now1) :
       Apply(p, AddTask(tasks[p], description, now1, now2), now2)
  /\ UNCHANGED deleted

UpdateTaskCall(p, task_id, new_description) ==
  /\ \E now \in Now(clock) :
       LET r == UpdateTask(tasks[p], task_id, new_description, now) IN
       Apply(p, r, IF r.save THEN now ELSE clock)
  /\ UNCHANGED deleted

DeleteTaskCall(p, task_id) ==
  Apply(p, DeleteTask(tasks[p], task_id), clock)

MarkTaskCall(p, task_id, status) ==
  /\ \E now \in Now(clock) :
       LET r == MarkTask(tasks[p], task_id, status, now) IN
       Apply(p, r, IF r.save THEN now ELSE clock)
  /\ UNCHANGED deleted

LoadTasksCall(p) ==
  /\ file.exists
  /\ tasks' = [tasks EXCEPT ![p] = LoadTasks(file, clock)]
  /\ UNCHANGED <<file, out, clock, deleted>>

SaveTasksCall(p) ==
  /\ file' = SaveTasks(tasks[p])
  /\ UNCHANGED <<tasks, out, clock, deleted>>

\* ---- the program: main() and the branches of handle_command
\* TaskCLI() constructs the TaskManager: tasks = [], _ensure_tasks_file, load
Main(p) ==
  /\ pc[p] = "exited"
  /\ pc' = [pc EXCEPT ![p] = "loaded"]
  /\ file' = EnsureTasksFile(file)
  /\ tasks' = [tasks EXCEPT ![p] = LoadTasks(file', clock)]
  /\ out' = [out EXCEPT ![p] = ""]
  /\ UNCHANGED <<clock, deleted>>

CmdAdd(p, description) ==
  /\ pc[p] = "loaded"
  /\ AddTaskCall(p, description)
  /\ pc' = [pc EXCEPT ![p] = "exited"]

CmdUpdate(p, task_id, description) ==
  /\ pc[p] = "loaded"
  /\ UpdateTaskCall(p, task_id, description)
  /\ pc' = [pc EXCEPT ![p] = "exited"]

CmdDelete(p, task_id) ==
  /\ pc[p] = "loaded"
  /\ DeleteTaskCall(p, task_id)
  /\ pc' = [pc EXCEPT ![p] = "exited"]
  /\ UNCHANGED deleted

\* the same branch, with the id it removed added to the history
CmdDeleteLogged(p, task_id) ==
  /\ pc[p] = "loaded"
  /\ DeleteTaskCall(p, task_id)
  /\ pc' = [pc EXCEPT ![p] = "exited"]
  /\ deleted' = IF out'[p] = "deleted" THEN deleted \cup {task_id} ELSE deleted

CmdMarkInProgress(p, task_id) ==
  /\ pc[p] = "loaded"
  /\ MarkTaskCall(p, task_id, "in-progress")
  /\ pc' = [pc EXCEPT ![p] = "exited"]

CmdMarkDone(p, task_id) ==
  /\ pc[p] = "loaded"
  /\ MarkTaskCall(p, task_id, "done")
  /\ pc' = [pc EXCEPT ![p] = "exited"]

CmdList(p) ==
  /\ pc[p] = "loaded"
  /\ pc' = [pc EXCEPT ![p] = "exited"]
  /\ out' = [out EXCEPT ![p] = "listed"]
  /\ UNCHANGED <<file, tasks, clock, deleted>>

CmdUnknown(p) ==
  /\ pc[p] = "loaded"
  /\ pc' = [pc EXCEPT ![p] = "exited"]
  /\ out' = [out EXCEPT ![p] = "unknown command"]
  /\ UNCHANGED <<file, tasks, clock, deleted>>

\* ---- specifications
\* one user running the program again and again, any command each time;
\* the collection is kept to MaxTasks tasks
Next ==
  \/ Main(1)
  \/ Len(tasks[1]) < MaxTasks /\ \E d \in Descriptions : CmdAdd(1, d)
  \/ \E k \in IdInputs, d \in Descriptions : CmdUpdate(1, k, d)
  \/ \E k \in IdInputs : CmdDelete(1, k)
  \/ \E k \in IdInputs : CmdMarkInProgress(1, k)
  \/ \E k \in IdInputs : CmdMarkDone(1, k)
  \/ CmdList(1)
  \/ CmdUnknown(1)

Spec == Init /\ [][Next]_vars

\* the same user running only `add` and `delete`, up to AddDeleteTasks tasks
NextAddDelete ==
  \/ Main(1)
  \/ Len(tasks[1]) < AddDeleteTasks /\ \E d \in Descriptions : CmdAdd(1, d)
  \/ \E k \in AddDeleteIds : CmdDeleteLogged(1, k)

SpecAddDelete == Init /\ [][NextAddDelete]_vars

\* a caller other than the CLI holding one TaskManager and calling its
\* methods in any order, mark_task with any status string
StoreAdd(p, description) ==
  pc[p] = "loaded" /\ AddTaskCall(p, description) /\ UNCHANGED pc

StoreUpdate(p, task_id, description) ==
  pc[p] = "loaded" /\ UpdateTaskCall(p, task_id, description) /\ UNCHANGED pc

StoreDelete(p, task_id) ==
  pc[p] = "loaded" /\ DeleteTaskCall(p, task_id) /\ UNCHANGED <<pc, deleted>>

StoreMark(p, task_id, status) ==
  pc[p] = "loaded" /\ MarkTaskCall(p, task_id, status) /\ UNCHANGED pc

NextStore ==
  \/ Main(1)
  \/ Len(tasks[1]) < MaxTasks /\ \E d \in Descriptions : StoreAdd(1, d)
  \/ \E k \in IdInputs, d \in Descriptions : StoreUpdate(1, k, d)
  \/ \E k \in IdInputs : StoreDelete(1, k)
  \/ \E k \in IdInputs, s \in StatusInputs : StoreMark(1, k, s)

SpecStore == Init /\ [][NextStore]_vars

\* Save then Load on a manager holding any collection of up to RTLen tasks
RTTasks ==
  [id : RTIds, description : Descriptions, status : Statuses,
   created_at : RTTimes, updated_at : RTTimes]

RTCollections == UNION {[1 .. n -> RTTasks] : n \in 0 .. RTLen}

InitRT ==
  /\ file = [exists |-> TRUE, data |-> <<>>]
  /\ \E c \in RTCollections : tasks = [p \in Procs |-> IF p = 1 THEN c ELSE <<>>]
  /\ pc = [p \in Procs |-> IF p = 1 THEN "loaded" ELSE "exited"]
  /\ out = [p \in Procs |-> ""]
  /\ clock = MaxClock
  /\ deleted = {}

RTSave ==
  /\ pc[1] = "loaded"
  /\ SaveTasksCall(1)
  /\ pc' = [pc EXCEPT ![1] = "saved"]

RTLoad ==
  /\ pc[1] = "saved"
  /\ LoadTasksCall(1)
  /\ pc' = [pc EXCEPT ![1] = "reloaded"]

NextRT == RTSave \/ RTLoad

SpecRT == InitRT /\ [][NextRT]_vars

\* two invocations of the program at once on the same file
NextRace ==
  \E p \in Procs :
    \/ Main(p)
    \/ Len(tasks[p]) < RaceTasks /\ CmdAdd(p, "a")
    \/ \E k \in 1 .. RaceTasks : CmdMarkDone(p, k)

SpecRace == Init /\ [][NextRace]_vars

\* ---- vocabulary of the properties
HasId(ts, k) == \E i \in 1 .. Len(ts) : ts[i].id = k

\* the position find-by-id stops at: the first task carrying k
FirstWith(ts, k) ==
  CHOOSE i \in 1 .. Len(ts) : ts[i].id = k /\ \A j \in 1 .. (i - 1) : ts[j].id # k

CreatedAts(ts) == [i \in 1 .. Len(ts) |-> ts[i].created_at]

LastTask(ts) == ts[Len(ts)]

FileHolds(f, ts) ==
  /\ f.exists
  /\ Len(f.data) = Len(ts)
  /\ \A i \in 1 .. Len(ts) :
       f.data[i] = [id |-> ts[i].id, description |-> ts[i].description,
                    status |-> ts[i].status, createdAt |-> ts[i].created_at,
                    updatedAt |-> ts[i].updated_at]

\* ---- C1
\* C1: after any sequence of add and delete from an empty store, no two tasks
\* of the in-memory collection, nor of the saved file, share an id.
C1_IdUniqueness ==
  /\ \A p \in Procs : \A i, j \in 1 .. Len(tasks[p]) :
       i # j => tasks[p][i].id # tasks[p][j].id
  /\ \A i, j \in 1 .. Len(file.data) : i # j => file.data[i].id # file.data[j].id

\* ---- C2
\* C2: update, delete and mark on an id no task carries print "not found" and
\* leave the in-memory collection and the file as they were.
C2_NotFoundHandling ==
  [][\A p \in Procs : \A k \in IdInputs :
       (/\ pc[p] = "loaded"
        /\ ~HasId(tasks[p], k)
        /\ \/ \E d \in Descriptions : CmdUpdate(p, k, d)
           \/ CmdDelete(p, k)
           \/ CmdMarkInProgress(p, k)
           \/ CmdMarkDone(p, k))
       => (out'[p] = "not found" /\ tasks' = tasks /\ file' = file)]_vars

C2_Witness ==
  /\ pc[1] = "exited"
  /\ out[1] = "not found"
  /\ Len(tasks[1]) = MaxTasks
  /\ \E i \in 1 .. Len(tasks[1]) : tasks[1][i].status = "done"

\* ---- C3
\* C3: add on a collection of N tasks leaves the first N as they were and
\* appends one task with id N+1, status todo, the given description and
\* created_at = updated_at = the time of the call.
C3_AddResult ==
  [][\A p \in Procs : \A d \in Descriptions :
       CmdAdd(p, d) =>
         LET N == Len(tasks[p])
             t == tasks'[p][N + 1] IN
         /\ Len(tasks'[p]) = N + 1
         /\ \A i \in 1 .. N : tasks'[p][i] = tasks[p][i]
         /\ t.id = N + 1
         /\ t.status = "todo"
         /\ t.description = d
         /\ t.created_at = t.updated_at
         /\ t.updated_at = clock']_vars

\* ---- C4
\* C4: once a task with id k has been deleted, no later add gives id k to a
\* new task.
C4_NoIdReuse ==
  \A p \in Procs :
    (pc[p] = "exited" /\ out[p] = "added") => LastTask(tasks[p]).id \notin deleted

\* ---- C5
\* C5: save_tasks followed by load_tasks yields the collection that was
\* saved: same length, same order, every field of every task equal.
C5_RoundTrip ==
  [][/\ (pc[1] = "loaded" /\ pc'[1] = "saved") =>
          (tasks'[1] = tasks[1] /\ FileHolds(file', tasks[1]))
     /\ (pc[1] = "saved" /\ pc'[1] = "reloaded") => tasks'[1] = tasks[1]]_vars

C5_Witness ==
  /\ pc[1] = "reloaded"
  /\ Len(tasks[1]) = RTLen
  /\ tasks[1][1].id = tasks[1][2].id
  /\ tasks[1][1].created_at # tasks[1][1].updated_at
  /\ tasks[1][1].description # tasks[1][2].description

\* ---- C6
\* C6: a successful update or mark sets the target's updated_at to a value
\* >= the previous one and changes nothing else's timestamps; no step (add,
\* delete, update, mark, list, or the save and load around them) changes the
\* created_at of a task that stays in the collection.
C6_TimestampRefresh ==
  [][\A p \in Procs :
       /\ (pc[p] = "loaded" /\ pc'[p] = "exited") =>
            /\ \A k \in IdInputs :
                 (/\ HasId(tasks[p], k)
                  /\ \/ \E d \in Descriptions : CmdUpdate(p, k, d)
                     \/ CmdMarkInProgress(p, k)
                     \/ CmdMarkDone(p, k))
                 => LET i == FirstWith(tasks[p], k) IN
                    /\ Len(tasks'[p]) = Len(tasks[p])
                    /\ tasks'[p][i].updated_at >= tasks[p][i].updated_at
                    /\ tasks'[p][i].updated_at = clock'
                    /\ \A j \in 1 .. Len(tasks[p]) : j # i => tasks'[p][j] = tasks[p][j]
                    /\ CreatedAts(tasks'[p]) = CreatedAts(tasks[p])
            /\ \A k \in IdInputs :
                 (HasId(tasks[p], k) /\ CmdDelete(p, k))
                 => LET i == FirstWith(tasks[p], k) IN
                    /\ \A j \in 1 .. (i - 1) :
                         tasks'[p][j].created_at = tasks[p][j].created_at
                    /\ \A j \in i .. (Len(tasks[p]) - 1) :
                         tasks'[p][j].created_at = tasks[p][j + 1].created_at
            /\ (\E d \in Descriptions : CmdAdd(p, d))
                 => \A j \in 1 .. Len(tasks[p]) :
                      tasks'[p][j].created_at = tasks[p][j].created_at
            /\ (CmdList(p) \/ CmdUnknown(p)) => tasks' = tasks
            /\ \A i \in 1 .. Len(tasks'[p]) :
                 /\ file'.data[i].createdAt = tasks'[p][i].created_at
                 /\ file'.data[i].updatedAt = tasks'[p][i].updated_at
       /\ (Main(p) /\ file.exists) => CreatedAts(tasks'[p]) = CreatedAts(tasks[p])]_vars

C6_Witness ==
  /\ pc[1] = "exited"
  /\ out[1] \in {"updated", "marked"}
  /\ Len(tasks[1]) = MaxTasks
  /\ \E i \in 1 .. Len(tasks[1]) :
       /\ tasks[1][i].updated_at > tasks[1][i].created_at
       /\ tasks[1][i].updated_at = clock

\* ---- C7
\* C7: mark_task with a status outside todo, in-progress, done changes no
\* task, so every task's status is always one of the three.
C7_StatusValidity ==
  /\ \A p \in Procs : \A i \in 1 .. Len(tasks[p]) : tasks[p][i].status \in Statuses
  /\ \A i \in 1 .. Len(file.data) : file.data[i].status \in Statuses

\* ---- C8
\* C8: add with an empty description changes nothing, so every task's
\* description is always non-empty.
C8_DescriptionValidity ==
  /\ \A p \in Procs : \A i \in 1 .. Len(tasks[p]) : tasks[p][i].description # ""
  /\ \A i \in 1 .. Len(file.data) : file.data[i].description # ""

\* ---- C9
\* C9: delete of an id some task carries removes exactly one task, the first
\* carrying that id; every other task stays, unchanged and in order; the file
\* holds the resulting collection; an add after it assigns count + 1.
C9_DeleteEffect ==
  [][\A p \in Procs :
       /\ \A k \in AddDeleteIds :
            (HasId(tasks[p], k) /\ CmdDeleteLogged(p, k))
            => LET i == FirstWith(tasks[p], k) IN
               /\ out'[p] = "deleted"
               /\ tasks[p][i].id = k
               /\ Len(tasks'[p]) = Len(tasks[p]) - 1
               /\ \A j \in 1 .. (i - 1) : tasks'[p][j] = tasks[p][j]
               /\ \A j \in i .. (Len(tasks[p]) - 1) : tasks'[p][j] = tasks[p][j + 1]
               /\ FileHolds(file', tasks'[p])
       /\ (\E d \in Descriptions : CmdAdd(p, d))
            => LastTask(tasks'[p]).id = Len(tasks[p]) + 1]_vars

C9_Witness ==
  /\ pc[1] = "exited"
  /\ out[1] = "added"
  /\ Ids(tasks[1]) = <<1, 3, 3>>
  /\ deleted = {2}

\* ---- C10
\* C10: an invocation's save writes its own in-memory collection, the one it
\* loaded plus its one mutation, whatever the file holds by then; so of two
\* invocations that loaded the same file before either saved, the file ends
\* with the later writer's collection only.
C10_LastWriterWins ==
  [][\A p \in Procs :
       /\ CmdAdd(p, "a")
            => /\ Len(tasks'[p]) = Len(tasks[p]) + 1
               /\ \A i \in 1 .. Len(tasks[p]) : tasks'[p][i] = tasks[p][i]
               /\ FileHolds(file', tasks'[p])
       /\ \A k \in 1 .. RaceTasks :
            (HasId(tasks[p], k) /\ CmdMarkDone(p, k))
            => /\ Len(tasks'[p]) = Len(tasks[p])
               /\ \A i \in 1 .. Len(tasks[p]) :
                    i # FirstWith(tasks[p], k) => tasks'[p][i] = tasks[p][i]
               /\ FileHolds(file', tasks'[p])]_vars

\* two adds on the empty store both succeeded and the file holds one task
C10_Witness ==
  /\ pc[1] = "exited" /\ pc[2] = "exited"
  /\ out[1] = "added" /\ out[2] = "added"
  /\ Len(tasks[1]) = 1 /\ Len(tasks[2]) = 1
  /\ Len(file.data) = 1

====
